---- MODULE Spec2Model ----
(***************************************************************************)
(* Model of the ingestion workflow of llm-rag-chroma-demo: the generic     *)
(* menu loop (MenuOrchestrator.run), the menu-driven ingestion             *)
(* orchestrator (IngestionMenuOrchestrator), the ProcessNewFilesCommand    *)
(* dialogue, the per-document pipeline extract -> chunk -> embed -> store, *)
(* the ChromaDB store adapter and the single-pass                          *)
(* DefaultIngestionOrchestrator.  Two further specifications exercise     *)
(* parts on their own: SpecMenuTree builds a menu with MenuBuilder and     *)
(* MenuGroup.add_menu_item and runs MenuOrchestrator.run on it;            *)
(* SpecChunker applies ParagraphTextChunker.chunk_text to bounded texts.   *)
(*                                                                         *)
(* External collaborators (text extraction, chunk count, embedding model,  *)
(* ChromaDB collection.add) are nondeterministic choices over the outcomes *)
(* their interface allows.  Reads of the data directory and of the store   *)
(* (load_documents, get_all_document_sources) are taken to succeed.        *)
(***************************************************************************)
EXTENDS Integers, Sequences, FiniteSets, TLC

\* ---------------------------------------------------------------- bounds
MaxBatches == 1        \* add_files batches of one menu run (batch_limit)
MaxChunks == 2         \* chunks the chunker yields for one document
MaxInitChunks == 1     \* chunks already in the store when a run starts
MaxItems == 2          \* items added to a menu tree under construction
MaxGroups == 2         \* menu groups started in one tree
MaxTextLen == 4        \* characters of a text chunked by fixed size
MaxChunkSize == 2      \* chunk_size and overlap given to _chunk_by_fixed_size
MaxWindows == 4        \* windows followed in one _chunk_by_fixed_size call
MaxResults == 2        \* results one query returns
MaxStored == 6         \* documents in the collection of the RAG system

\* ------------------------------------------------------------ constants
ChunkMinLength == 30   \* IngestionConfig.chunk_min_length set by main

\* ------------------------------------------------------------- universe
FileOrder == <<"a.txt", "b.txt", "c.pdf">>   \* sorted() order of the names
Files == {FileOrder[i] : i \in 1..Len(FileOrder)}
ExtOf == [f \in Files |-> IF f = "c.pdf" THEN "pdf" ELSE "txt"]
TypeOrder == <<"pdf", "txt">>                \* sorted() order of the types

Range(s) == {s[i] : i \in 1..Len(s)}

RECURSIVE SortedSeq(_, _)
\* sorted(S): the members of S in FileOrder order, from position i on
SortedSeq(S, i) ==
    IF i > Len(FileOrder) THEN <<>>
    ELSE IF FileOrder[i] \in S THEN <<FileOrder[i]>> \o SortedSeq(S, i + 1)
         ELSE SortedSeq(S, i + 1)

Sorted(S) == SortedSeq(S, 1)

RECURSIVE FilterDocs(_, _)
\* [doc for doc in documents if doc.filename in files]
FilterDocs(docs, files) ==
    IF docs = <<>> THEN <<>>
    ELSE IF Head(docs) \in files
         THEN <<Head(docs)>> \o FilterDocs(Tail(docs), files)
         ELSE FilterDocs(Tail(docs), files)

\* ------------------------------------------------------------- messages
MsgErrProcessing == "Error processing file {doc.filename}: {e}"
MsgWarnNoText == "No text extracted from {doc.filename}"
MsgWarnNoDocs == "No documents found for selected files"
DMsgNoText == "No text extracted from {document.filename}"
DMsgNoChunks == "No chunks created for {document.filename}"
DMsgEmbedFail == "Failed to generate embeddings for {document.filename}"
DMsgStoreFail == "Failed to add {document.filename} to vector store"
DMsgErrProcessing == "Error processing document {document.filename}: {e}"
DMsgNoDocuments == "No documents found"
DMsgUserCancelled == "User cancelled all operations"
DMsgOpCancelled == "Operation cancelled by user"
DMsgNoneSelected == "No files were selected for processing"
MsgEOF == "EOF when reading a line"

\* ---------------------------------------------------------------- state
VARIABLES
    orch,                 \* which orchestrator runs: "menu" or "default"
    pc,                   \* position of the run
    documents,            \* what load_documents returns (filenames, in order)
    store,                \* the collection: set of <<chunk id, source>>
    context,              \* the categorisation handed to the commands
    menu_items,           \* MenuGroup._menu_items of the current menu
    selected,             \* files of the pending selection / custom action
    selected_docs,        \* documents of the batch still to be processed
    processed_documents,
    total_chunks,
    errors,
    warnings,
    result,               \* the IngestionResult returned (valid at "done")
    rejected,             \* an entry was rejected at the current prompt
    entry,                \* what the latest input() at the main prompt gave
    dispatched,           \* choice id handed to handle_input in this iteration
    interrupted,          \* a KeyboardInterrupt was delivered in this iteration
    crashed,              \* the loop was ended by an unexpected exception
    batchLog,             \* the latest batch: documents handled, raised, without text
    batchSize,            \* number of documents selected for that batch
    nBatches,             \* add_files batches started in this run
    lastAdd,              \* <<#chunks, #embeddings>> of the latest add_documents call
    lastStored,           \* the latest batch: when it ran, the files it stored
    db_choice,            \* what the files-only-in-database menu did
    batch_limit,          \* add_files batches after which no dialogue is opened
    pnf_result,           \* what ProcessNewFilesCommand.execute returned last
    process_result,       \* which function menu_orchestrator._process_result is
    menus,                \* MenuBuilder: the groups started, in order (1 is _root)
    current,              \* MenuBuilder._current (0 is None)
    stack,                \* MenuBuilder._stack
    tpc,                  \* position of the generic menu run on that tree
    handled,              \* the latest MenuGroup.handle_input call on the root
    chunk_input,          \* the arguments of the next chunk_text call
    chunks,               \* what the latest chunk_text call returned
    prev_chunks,          \* what the call before it returned
    strategy,             \* strategy of the latest custom-strategy call
    spc,                  \* position of that call
    fs,                   \* _chunk_by_fixed_size: len(text), kwargs, start
    schunks,              \* the chunks that call has made so far
    file_choice,          \* the latest entry at "Your selection:" and its outcome
    rag,                  \* the latest generate_rag_response call
    vector_store          \* RAGSystem.vector_store: its collection, the latest call

\* the state of one ingest_documents run
runVars == <<orch, pc, documents, store, context, menu_items, selected,
             selected_docs, processed_documents, total_chunks, errors, warnings,
             result, rejected, entry, dispatched, interrupted, crashed,
             batchLog, batchSize, nBatches, lastAdd, lastStored, db_choice,
             batch_limit, pnf_result, process_result>>

\* the state of the menu builder and of the generic run on its tree
treeVars == <<menus, current, stack, tpc, handled>>

\* the state of the chunker exercised on its own
chunkVars == <<chunk_input, chunks, prev_chunks>>

\* the state of a chunk_text_with_custom_strategy call
strategyVars == <<strategy, spc, fs, schunks>>

\* the state of the parts exercised on their own besides the chunker
auxVars == <<strategyVars, file_choice, rag, vector_store>>

vars == <<runVars, treeVars, chunkVars, auxVars>>

\* ------------------------------------------------------------ the store
\* ChromaDBVectorStore.get_all_document_sources
GetAllDocumentSources(st) == {p[2] : p \in st}

StoreIds(st) == {p[1] : p \in st}

\* the chunks chunk_text builds for a document: ids are str(chunk_id),
\* chunk_id counting from 0 within the document
ChunkIds(n) == 0..(n - 1)

\* collection.add followed by the handling of add_documents.
\*   outcome "ok"   : the new ids are inserted (ids already present are kept)
\*   outcome "dup"  : chroma raised "Add of existing embedding ID": nothing
\*                    inserted, add_documents returns True
\*   outcome "fail" : any other exception: nothing inserted, returns False
AddDocumentsStore(st, file, n, outcome) ==
    IF outcome = "ok"
    THEN st \cup {<<i, file>> : i \in ChunkIds(n) \ StoreIds(st)}
    ELSE st

\* add_documents without the test for "Add of existing embedding ID"
AddDocumentsReturnStrict(outcome) == outcome = "ok"

\* what add_documents returns
AddDocumentsReturn(outcome) == outcome \in {"ok", "dup"}

\* outcomes collection.add can have for n chunks and m embeddings
AddOutcomes(st, n, m) ==
    IF n # m THEN {"fail"}
    ELSE IF ChunkIds(n) \cap StoreIds(st) # {} THEN {"ok", "dup", "fail"}
    ELSE {"ok", "fail"}

\* delete_documents_by_source leaving the collection as it is
DeleteDocumentsBySourceNone(st, source) == st

\* ChromaDBVectorStore.delete_documents_by_source
DeleteDocumentsBySource(st, source) == {p \in st : p[2] # source}

\* ----------------------------------------------------- the categorisation
\* the categorisation with the subtraction of the store's sources left out
CreateIngestionContextNoDiff(local_files, db_files) ==
    [new |-> local_files,
     both |-> local_files \cap db_files,
     orphaned |-> db_files \ local_files]

\* IngestionMenuOrchestrator._create_ingestion_context, and step 3 of
\* DefaultIngestionOrchestrator.ingest_documents
CreateIngestionContext(local_files, db_files) ==
    [new |-> local_files \ db_files,
     both |-> local_files \cap db_files,
     orphaned |-> db_files \ local_files]

EmptyContext == [new |-> {}, both |-> {}, orphaned |-> {}]

\* ------------------------------------------------------------- the menu
\* IngestionMenuBuilder.build_main_menu: items 1..6 and the exit item "0"
MainMenu ==
    << [id |-> "1", enabled |-> TRUE, visible |-> TRUE, command |-> "process_new_files"],
       [id |-> "2", enabled |-> TRUE, visible |-> TRUE, command |-> "handle_existing_files"],
       [id |-> "3", enabled |-> TRUE, visible |-> TRUE, command |-> "handle_orphaned_files"],
       [id |-> "4", enabled |-> TRUE, visible |-> TRUE, command |-> "clear_database"],
       [id |-> "5", enabled |-> TRUE, visible |-> TRUE, command |-> "add_files_by_type"],
       [id |-> "6", enabled |-> TRUE, visible |-> TRUE, command |-> "add_specific_file"],
       [id |-> "0", enabled |-> TRUE, visible |-> TRUE, command |-> "exit"] >>

\* what the operator may type at the main prompt
Choices == {"0", "1", "2", "3", "4", "5", "6", "99", ""}

\* MenuGroup.get_valid_choices
GetValidChoices(items) ==
    {items[i].id : i \in {j \in 1..Len(items) : items[j].visible /\ items[j].enabled}}

\* MenuGroup._choice_map
ChoiceMap(items) == {items[i].id : i \in 1..Len(items)}

\* the command bound to a choice id (the last item added under that id)
CommandOf(items, choice) ==
    LET idx == {i \in 1..Len(items) : items[i].id = choice}
    IN items[CHOOSE i \in idx : \A j \in idx : j <= i].command

\* _get_user_choice without the membership test
AcceptAnyChoice(items, choice) == TRUE

\* MenuOrchestrator._get_user_choice: the test that accepts an entry
ChoiceAccepted(items, choice) == choice \in GetValidChoices(items)

EmptyLog ==
    [handled |-> 0, raised |-> 0, empty |-> 0, last |-> "", calls |-> <<>>]

EmptyResult ==
    [success |-> FALSE, documents_processed |-> 0, chunks_ingested |-> 0,
     errors |-> <<>>, warnings |-> <<>>]


\* ------------------------------------------------------- the chunker
\* the lengths a stripped paragraph of a text takes here: those on either
\* side of the test "len(paragraph) < config.chunk_min_length" (length 0
\* is the paragraph that strip() leaves empty)
ParagraphLengths(min_length) == {min_length - 1, min_length}

RECURSIVE SeqsUpTo(_, _)
\* the sequences over S of length at most n
SeqsUpTo(S, n) ==
    IF n = 0 THEN {<<>>}
    ELSE LET shorter == SeqsUpTo(S, n - 1)
         IN shorter \cup {Append(t, x) : t \in shorter, x \in S}

\* the texts a document can yield: the lengths of its paragraphs, in order
Texts(min_length) == SeqsUpTo(ParagraphLengths(min_length), MaxChunks)

\* the test of line 70 with "<=" in place of "<"
TooShortInclusive(length, min_length) == length <= min_length

\* "len(paragraph) < config.chunk_min_length": the paragraph is skipped
TooShort(length, min_length) == length < min_length

RECURSIVE ChunkFrom(_, _, _, _, _)
\* the for loop of chunk_text from paragraph i (counted from 1) on, with
\* chunk_id chunks made so far: a paragraph shorter than min_length is
\* skipped, any other becomes a chunk with id str(chunk_id) and
\* chunk_index the position of the paragraph (counted from 0)
ChunkFrom(paragraphs, min_length, source_file, i, chunk_id) ==
    IF i > Len(paragraphs) THEN <<>>
    ELSE IF paragraphs[i] = 0 \/ TooShort(paragraphs[i], min_length)
    THEN ChunkFrom(paragraphs, min_length, source_file, i + 1, chunk_id)
    ELSE <<[id |-> chunk_id, source_file |-> source_file,
            chunk_index |-> i - 1, length |-> paragraphs[i],
            metadata |-> [source |-> source_file, chunk_index |-> i - 1,
                          strategy |-> "paragraph"]]>>
         \o ChunkFrom(paragraphs, min_length, source_file, i + 1, chunk_id + 1)

\* ParagraphTextChunker.chunk_text
ChunkText(paragraphs, min_length, source_file) ==
    ChunkFrom(paragraphs, min_length, source_file, 1, 0)

\* the numbers of chunks chunk_text can return for a document
ChunkCounts(source_file) ==
    {Len(ChunkText(text, ChunkMinLength, source_file)) :
       text \in Texts(ChunkMinLength)}

\* --------------------------------------- the parts when not exercised
NoHandled == [choice |-> "", command |-> "", action |-> ""]

\* no menu tree is under construction
TreeIdle ==
    /\ menus = <<>>
    /\ current = 0
    /\ stack = <<>>
    /\ tpc = "build"
    /\ handled = NoHandled

\* the chunker has not been called
ChunkerIdle ==
    /\ chunk_input = [text |-> <<>>, source_file |-> "a.txt",
                      min_length |-> ChunkMinLength]
    /\ chunks = <<>>
    /\ prev_chunks = <<>>

NoFixedSize == [length |-> 0, chunk_size |-> 0, overlap |-> 0, start |-> 0]

\* chunk_text_with_custom_strategy has not been called
StrategyIdle ==
    /\ strategy = ""
    /\ spc = "idle"
    /\ fs = NoFixedSize
    /\ schunks = <<>>

\* nothing was entered at the "Your selection:" prompt exercised on its own
SelectIdle ==
    file_choice = [pc |-> "idle", tokens |-> <<>>, new_files |-> {},
                   result |-> [ok |-> FALSE, files |-> {}]]

\* generate_rag_response has not been called
RagIdle ==
    /\ rag = [pc |-> "idle", results |-> <<>>, context |-> <<>>, llm_calls |-> 0]
    /\ vector_store = [collection |-> TRUE, count |-> 0, cleared |-> FALSE,
                       op |-> "",
                       outcome |-> "", ids |-> 0, before |-> 0,
                       documents |-> 0, embeddings |-> 0]

\* none of the parts exercised on their own is in use
AuxIdle == StrategyIdle /\ SelectIdle /\ RagIdle

\* ingest_documents has just been called: nothing accumulated yet
RunFresh ==
    /\ pc = "start"
    /\ context = EmptyContext
    /\ menu_items = <<>>
    /\ selected = {}
    /\ selected_docs = <<>>
    /\ processed_documents = 0
    /\ total_chunks = 0
    /\ errors = <<>>
    /\ warnings = <<>>
    /\ result = EmptyResult
    /\ rejected = FALSE
    /\ entry = ""
    /\ dispatched = ""
    /\ interrupted = FALSE
    /\ crashed = FALSE
    /\ batchLog = EmptyLog
    /\ batchSize = 0
    /\ nBatches = 0
    /\ lastAdd = <<0, 0>>
    /\ lastStored = [when |-> "earlier", files |-> {}]
    /\ db_choice = [choice |-> "", confirmed |-> FALSE, deleted |-> <<>>]
    /\ pnf_result = [action |-> "", confirmed |-> FALSE]
    /\ process_result = "original"

\* no ingest_documents run is under way
RunIdle ==
    /\ orch = "menu"
    /\ documents = <<>>
    /\ store = {}
    /\ batch_limit = MaxBatches
    /\ RunFresh

\* ------------------------------------------------------------------ Init
RECURSIVE StoresOfSize(_)
\* the stores a previous run can have left: chunk ids 0..n-1, any sources
StoresOfSize(n) ==
    IF n = 0 THEN {{}}
    ELSE {st \cup {<<n - 1, f>>} : st \in StoresOfSize(n - 1), f \in Files}

InitStores == UNION {StoresOfSize(n) : n \in 0..MaxInitChunks}

DocLists == {Sorted(S) : S \in SUBSET Files}

Init ==
    /\ orch \in {"menu", "default"}
    /\ documents \in DocLists
    /\ store \in InitStores
    /\ batch_limit = MaxBatches
    /\ RunFresh
    /\ TreeIdle
    /\ ChunkerIdle
    /\ AuxIdle

\* ------------------------------------------- IngestionMenuOrchestrator
\* a result that counts the documents of the latest batch only
MenuResultLatestBatch(nproc, nchunks, errs, warns) ==
    [success |-> Len(errs) = 0,
     documents_processed |->
       batchLog.handled - batchLog.raised - batchLog.empty,
     chunks_ingested |-> nchunks, errors |-> errs, warnings |-> warns]

\* a normal return that counts a run without any processed document as failed
MenuResultNeedsWork(nproc, nchunks, errs, warns) ==
    [success |-> Len(errs) = 0 /\ nproc > 0, documents_processed |-> nproc,
     chunks_ingested |-> nchunks, errors |-> errs, warnings |-> warns]

\* the IngestionResult of the normal return of ingest_documents
MenuResult(nproc, nchunks, errs, warns) ==
    [success |-> Len(errs) = 0, documents_processed |-> nproc,
     chunks_ingested |-> nchunks, errors |-> errs, warnings |-> warns]

\* the IngestionResult of an except branch of ingest_documents
ExceptResult(msg) ==
    [success |-> FALSE, documents_processed |-> 0, chunks_ingested |-> 0,
     errors |-> <<msg>>, warnings |-> <<>>]

\* the context created once and kept for the later iterations
StaleContextFactory(ctx, docs, st) ==
    IF ctx = EmptyContext
    THEN CreateIngestionContext(Range(docs), GetAllDocumentSources(st))
    ELSE ctx

\* the context the loop hands to display and dispatch in one iteration
ContextFactory(ctx, docs, st) ==
    CreateIngestionContext(Range(docs), GetAllDocumentSources(st))

\* ingest_documents returning with its own handler still installed
ProcessResultLeftInstalled(original_process_result) == "ingestion"

\* the assignment after run returned: _process_result is again what was
\* saved in original_process_result before the replacement
ProcessResultAfterRun(original_process_result) == original_process_result

\* ingest_documents up to the call of menu_orchestrator.run: the menu is
\* built and the result handler replaced; an exception here is reported by
\* the outer except branch
MenuStart ==
    /\ UNCHANGED <<treeVars, chunkVars, auxVars, db_choice, batch_limit,
                   pnf_result>>
    /\ entry' = entry
    /\ orch = "menu" /\ pc = "start"
    /\ \E ok \in BOOLEAN :
         IF ok
         THEN /\ menu_items' = MainMenu
              /\ pc' = "loop"
              /\ result' = result
              /\ process_result' = "ingestion"
         ELSE /\ menu_items' = menu_items
              /\ pc' = "done"
              /\ result' = ExceptResult("build_main_menu failed")
              /\ process_result' = process_result
    /\ UNCHANGED <<orch, documents, store, context, selected, selected_docs,
                   processed_documents, total_chunks, errors, warnings,
                   rejected, dispatched, interrupted, crashed, batchLog,
                   batchSize, nBatches, lastAdd, lastStored>>

\* MenuOrchestrator.run, top of the while loop: context, display, prompt
MenuLoopTop ==
    /\ UNCHANGED <<treeVars, chunkVars, auxVars, db_choice, batch_limit,
                   process_result>>
    /\ orch = "menu" /\ pc = "loop"
    /\ context' = ContextFactory(context, documents, store)
    /\ lastStored' = [lastStored EXCEPT !.when = IF @ = "now" THEN "previous"
                                                 ELSE "earlier"]
    /\ rejected' = FALSE
    /\ entry' = ""
    /\ dispatched' = ""
    /\ interrupted' = FALSE
    /\ pnf_result' = [action |-> "", confirmed |-> FALSE]
    /\ pc' = "choice"
    /\ UNCHANGED <<orch, documents, store, menu_items, selected, selected_docs,
                   processed_documents, total_chunks, errors, warnings, result,
                   crashed, batchLog, batchSize, nBatches, lastAdd>>

\* _process_result answering True for every action
AfterResultAlwaysEnds(action) == "ret"

\* where the loop goes after _process_result for a result with this action
AfterResult(action) == IF action = "exit" THEN "ret" ELSE "loop"

\* the CommandResult action of the commands that need no dialogue
SimpleCommandAction(command) ==
    CASE command = "exit" -> "exit"
      [] command = "back" -> "back"
      [] OTHER -> "continue"

\* execute returning the add_files action whatever confirm_action answered
PnfResultUnconfirmed(confirmed) ==
    [action |-> "custom_action", confirmed |-> confirmed]

\* the CommandResult of ProcessNewFilesCommand.execute: the add_files
\* custom action when confirm_action was called and answered True,
\* CONTINUE on every other return
PnfResult(confirmed) ==
    [action |-> IF confirmed THEN "custom_action" ELSE "continue",
     confirmed |-> confirmed]

\* _get_user_choice, one entry: rejected, or accepted and dispatched by
\* MenuGroup.handle_input to the command of the item.  The dialogue of
\* ProcessNewFilesCommand is opened for at most batch_limit batches.
EnterChoice ==
    /\ UNCHANGED <<treeVars, chunkVars, auxVars, db_choice, batch_limit,
                   process_result>>
    /\ orch = "menu" /\ pc = "choice"
    /\ \E choice \in Choices :
         /\ entry' = choice
         /\ IF ~ChoiceAccepted(menu_items, choice)
            THEN /\ rejected' = TRUE
                 /\ UNCHANGED <<pc, dispatched, crashed, pnf_result>>
            ELSE IF choice \notin ChoiceMap(menu_items)
            THEN \* handle_input raises ValueError: run's except ends the loop
                 /\ crashed' = TRUE
                 /\ pc' = "ret"
                 /\ UNCHANGED <<rejected, dispatched, pnf_result>>
            ELSE /\ dispatched' = choice
                 /\ UNCHANGED <<rejected, crashed>>
                 /\ LET command == CommandOf(menu_items, choice)
                    IN IF command = "process_new_files" /\ context.new # {}
                       THEN /\ nBatches < batch_limit
                            /\ pc' = "pnf_menu"
                            /\ pnf_result' = pnf_result
                       ELSE /\ pc' = AfterResult(SimpleCommandAction(command))
                            /\ pnf_result' =
                                 IF command = "process_new_files"
                                 THEN PnfResult(FALSE) ELSE pnf_result
    /\ UNCHANGED <<orch, documents, store, context, menu_items, selected,
                   selected_docs, processed_documents, total_chunks, errors,
                   warnings, result, interrupted, batchLog, batchSize,
                   nBatches, lastAdd, lastStored>>

PromptPcs == {"choice", "pnf_menu", "pnf_select", "pnf_type", "confirm"}

\* where a KeyboardInterrupt raised by input() at this prompt leads:
\* run's except branch breaks the loop; the except branch of
\* ProcessNewFilesCommand.execute returns a CONTINUE result instead
AfterKeyboardInterrupt(at) == IF at = "choice" THEN "ret" ELSE "loop"

\* a KeyboardInterrupt delivered while input() blocks
KeyboardInterruptAtPrompt ==
    /\ UNCHANGED <<treeVars, chunkVars, auxVars, db_choice, batch_limit,
                   process_result>>
    /\ orch = "menu" /\ pc \in PromptPcs
    /\ interrupted' = TRUE
    /\ pc' = AfterKeyboardInterrupt(pc)
    /\ entry' = IF pc = "choice" THEN "^C" ELSE entry
    /\ pnf_result' = IF pc = "choice" THEN pnf_result ELSE PnfResult(FALSE)
    /\ selected' = {}
    /\ UNCHANGED <<orch, documents, store, context, menu_items,
                   selected_docs, processed_documents, total_chunks, errors,
                   warnings, result, rejected, dispatched, crashed,
                   batchLog, batchSize, nBatches, lastAdd, lastStored>>

\* input() raises EOFError (stdin closed): no except branch of the command
\* matches, run's "except Exception" logs it and breaks the loop
ExceptionAtPrompt ==
    /\ UNCHANGED <<treeVars, chunkVars, auxVars, db_choice, batch_limit,
                   pnf_result, process_result>>
    /\ orch = "menu" /\ pc \in PromptPcs
    /\ crashed' = TRUE
    /\ pc' = "ret"
    /\ entry' = IF pc = "choice" THEN "^D" ELSE entry
    /\ selected' = {}
    /\ UNCHANGED <<orch, documents, store, context, menu_items,
                   selected_docs, processed_documents, total_chunks, errors,
                   warnings, result, rejected, dispatched, interrupted,
                   batchLog, batchSize, nBatches, lastAdd, lastStored>>

\* ingest_documents after run returned: the handler is restored and the
\* accumulated result returned
MenuReturn ==
    /\ UNCHANGED <<treeVars, chunkVars, auxVars, db_choice, batch_limit,
                   pnf_result>>
    /\ entry' = entry
    /\ orch = "menu" /\ pc = "ret"
    /\ process_result' = ProcessResultAfterRun("original")
    /\ result' = MenuResult(processed_documents, total_chunks, errors, warnings)
    /\ pc' = "done"
    /\ UNCHANGED <<orch, documents, store, context, menu_items, selected,
                   selected_docs, processed_documents, total_chunks, errors,
                   warnings, rejected, dispatched, interrupted, crashed,
                   batchLog, batchSize, nBatches, lastAdd, lastStored>>


\* ---------------------------------------------- ProcessNewFilesCommand
PnfChoices == {"0", "1", "2", "3", "4", "9"}
Tokens == {"0", "1", "2", "3", "4", "x", ""}
IntOf == [t \in {"0", "1", "2", "3", "4"} |->
            CASE t = "0" -> 0 [] t = "1" -> 1 [] t = "2" -> 2
              [] t = "3" -> 3 [] t = "4" -> 4]
IsNumeric(t) == t \in DOMAIN IntOf

\* what the operator may type at "Your selection:" (comma separated tokens)
SelectInputs ==
    {<<"all">>} \cup {<<t>> : t \in Tokens}
                \cup {<<t, u>> : t \in Tokens, u \in Tokens}

\* a selection that skips the tokens naming no file and keeps the others
ParseSelectionPartial(tokens, new_files) ==
    LET sorted_files == Sorted(new_files)
        Valid(t) == IsNumeric(t) /\ IntOf[t] - 1 >= 0
                       /\ IntOf[t] - 1 < Len(sorted_files)
    IN IF tokens = <<"all">> THEN [ok |-> TRUE, files |-> new_files]
       ELSE [ok |-> TRUE,
             files |-> {sorted_files[IntOf[tokens[i]]] :
                           i \in {j \in 1..Len(tokens) : Valid(tokens[j])}}]

\* lines 91-109: the selection an entry denotes.  ok is FALSE when int()
\* raised ValueError or an index was out of range (CONTINUE is returned)
ParseSelection(tokens, new_files) ==
    LET sorted_files == Sorted(new_files)
        InRange(t) == IntOf[t] - 1 >= 0 /\ IntOf[t] - 1 < Len(sorted_files)
    IN IF tokens = <<"all">> THEN [ok |-> TRUE, files |-> new_files]
       ELSE IF \E i \in 1..Len(tokens) : ~IsNumeric(tokens[i])
       THEN [ok |-> FALSE, files |-> {}]
       ELSE IF \E i \in 1..Len(tokens) : ~InRange(tokens[i])
       THEN [ok |-> FALSE, files |-> {}]
       ELSE [ok |-> TRUE,
             files |-> {sorted_files[IntOf[tokens[i]]] : i \in 1..Len(tokens)}]

\* lines 129-138 and 157: the types of the new files, sorted
RECURSIVE TypesFrom(_, _)
TypesFrom(new_files, i) ==
    IF i > Len(TypeOrder) THEN <<>>
    ELSE IF \E f \in new_files : ExtOf[f] = TypeOrder[i]
         THEN <<TypeOrder[i]>> \o TypesFrom(new_files, i + 1)
         ELSE TypesFrom(new_files, i + 1)

SortedTypes(new_files) == TypesFrom(new_files, 1)

\* the files of a type taken from the whole folder and collection
FilesOfTypeAnywhere(new_files, type) == {f \in Files : ExtOf[f] = type}

FilesOfType(new_files, type) == {f \in new_files : ExtOf[f] = type}

\* the prompt "Enter your choice (0-4)" of execute
PnfMenu ==
    /\ UNCHANGED <<treeVars, chunkVars, auxVars, db_choice, batch_limit,
                   process_result>>
    /\ entry' = entry
    /\ orch = "menu" /\ pc = "pnf_menu"
    /\ \E choice \in PnfChoices :
         CASE choice \in {"0", "4"} ->
                /\ pc' = "loop" /\ selected' = {} /\ rejected' = FALSE
                /\ pnf_result' = PnfResult(FALSE)
           [] choice = "1" ->
                /\ pc' = "confirm" /\ selected' = context.new /\ rejected' = FALSE
                /\ pnf_result' = pnf_result
           [] choice = "2" ->
                /\ pc' = "pnf_select" /\ selected' = selected /\ rejected' = FALSE
                /\ pnf_result' = pnf_result
           [] choice = "3" ->
                /\ pc' = "pnf_type" /\ selected' = selected /\ rejected' = FALSE
                /\ pnf_result' = pnf_result
           [] OTHER ->
                /\ rejected' = TRUE
                /\ UNCHANGED <<pc, selected, pnf_result>>
    /\ UNCHANGED <<orch, documents, store, context, menu_items, selected_docs,
                   processed_documents, total_chunks, errors, warnings, result,
                   dispatched, interrupted, crashed, batchLog, batchSize,
                   nBatches, lastAdd, lastStored>>

\* option 2, the prompt "Your selection:"
PnfSelect ==
    /\ UNCHANGED <<treeVars, chunkVars, auxVars, db_choice, batch_limit,
                   process_result>>
    /\ entry' = entry
    /\ orch = "menu" /\ pc = "pnf_select"
    /\ \E tokens \in SelectInputs :
         LET sel == ParseSelection(tokens, context.new)
         IN IF sel.ok /\ sel.files # {}
            THEN /\ pc' = "confirm" /\ selected' = sel.files
                 /\ pnf_result' = pnf_result
            ELSE /\ pc' = "loop" /\ selected' = {}
                 /\ pnf_result' = PnfResult(FALSE)
    /\ UNCHANGED <<orch, documents, store, context, menu_items, selected_docs,
                   processed_documents, total_chunks, errors, warnings, result,
                   rejected, dispatched, interrupted, crashed, batchLog,
                   batchSize, nBatches, lastAdd, lastStored>>

\* option 3, the prompt for the file type
PnfType ==
    /\ UNCHANGED <<treeVars, chunkVars, auxVars, db_choice, batch_limit,
                   pnf_result, process_result>>
    /\ entry' = entry
    /\ orch = "menu" /\ pc = "pnf_type"
    /\ \E type_choice \in Tokens :
         LET types == SortedTypes(context.new)
         IN IF type_choice # "0" /\ IsNumeric(type_choice)
               /\ IntOf[type_choice] - 1 >= 0
               /\ IntOf[type_choice] - 1 < Len(types)
            THEN /\ pc' = "confirm"
                 /\ selected' = FilesOfType(context.new, types[IntOf[type_choice]])
            ELSE \* "0", out of range or not a number: back to the 0-4 prompt
                 /\ pc' = "pnf_menu" /\ selected' = selected
    /\ UNCHANGED <<orch, documents, store, context, menu_items, selected_docs,
                   processed_documents, total_chunks, errors, warnings, result,
                   rejected, dispatched, interrupted, crashed, batchLog,
                   batchSize, nBatches, lastAdd, lastStored>>

Responses == {"y", "yes", "n", "no", "maybe"}

\* ConsoleUserInterface.confirm_action, one entry.  On "y" execute returns
\* the add_files custom action and process_result_with_ingestion_handling
\* loads the documents and selects those named by the action; the
\* selection is a local of execute and is gone when execute returns
Confirm ==
    /\ UNCHANGED <<treeVars, chunkVars, auxVars, db_choice, batch_limit,
                   process_result>>
    /\ entry' = entry
    /\ orch = "menu" /\ pc = "confirm"
    /\ \E response \in Responses :
         IF response \in {"y", "yes", "n", "no"}
         THEN LET res == PnfResult(response \in {"y", "yes"})
                  docs == FilterDocs(documents, selected)
              IN /\ pnf_result' = res
                 /\ IF res.action = "custom_action" /\ selected # {}
                       /\ docs # <<>>
                    THEN /\ pc' = "batch"
                         /\ selected_docs' = docs
                         /\ batchLog' = EmptyLog
                         /\ batchSize' = Len(docs)
                         /\ nBatches' = nBatches + 1
                         /\ lastStored' = [when |-> "now", files |-> {}]
                         /\ UNCHANGED <<warnings, rejected>>
                    ELSE /\ pc' = "loop"
                         /\ warnings' =
                              IF res.action = "custom_action" /\ selected # {}
                              THEN Append(warnings, MsgWarnNoDocs)
                              ELSE warnings
                         /\ UNCHANGED <<selected_docs, batchLog, batchSize,
                                        nBatches, lastStored, rejected>>
         ELSE /\ rejected' = TRUE
              /\ UNCHANGED <<pc, selected_docs, warnings, batchLog,
                             batchSize, nBatches, lastStored, pnf_result>>
    /\ selected' = IF pc' = "confirm" THEN selected ELSE {}
    /\ UNCHANGED <<orch, documents, store, context, menu_items,
                   processed_documents, total_chunks, errors, result,
                   dispatched, interrupted, crashed, lastAdd>>

\* ------------------------------------------------- the document pipeline
ExtractOutcomes == {"raise", "empty", "text"}

\* add_documents reached whatever generate_embeddings returned
MenuCallsAddUngated(n, m) == n # 0

\* _add_document_to_vector_store: is add_documents reached for n chunks and
\* m embeddings (lines 315 and 333)
MenuCallsAdd(n, m) == n # 0 /\ ~(m = 0 \/ m # n)

\* the steps called for a document whose extraction gave text, in order:
\* extract_text, chunk_text, generate_embeddings, add_documents
PipelineCalls(n, m) ==
    <<"extract", "chunk">>
      \o (IF n # 0 THEN <<"embed">> ELSE <<>>)
      \o (IF MenuCallsAdd(n, m) THEN <<"store">> ELSE <<>>)

\* _add_document_to_vector_store returning 0 on every path
ChunksAddedNone(n, m, outcome) == 0

\* _add_document_to_vector_store: the value returned
ChunksAdded(n, m, outcome) ==
    IF MenuCallsAdd(n, m) /\ AddDocumentsReturn(outcome) THEN n ELSE 0

\* the except branch placed around the whole loop: the batch is abandoned
AbortAfterError(docs) == <<>>

\* what the per-document except branch leaves of the batch (the for loop
\* goes on with the next document)
RemainingAfterError(docs) == Tail(docs)

\* which return of _add_document_to_vector_store a document took
PipelineTag(n, m, outcome) ==
    IF n = 0 THEN "nochunks"
    ELSE IF ~MenuCallsAdd(n, m) THEN "embfail"
    ELSE IF AddDocumentsReturn(outcome) THEN "stored" ELSE "storefail"

\* one pass of the for loop of process_result_with_ingestion_handling
\* (lines 115-169); after the last document the original _process_result
\* runs and the menu loop goes on
ProcessDocument ==
    /\ UNCHANGED <<treeVars, chunkVars, auxVars, db_choice, batch_limit,
                   pnf_result, process_result>>
    /\ entry' = entry
    /\ orch = "menu" /\ pc = "batch" /\ selected_docs # <<>>
    /\ LET doc == Head(selected_docs)
       IN \E ex \in ExtractOutcomes :
            CASE ex = "raise" ->
                   /\ errors' = Append(errors, MsgErrProcessing)
                   /\ selected_docs' = RemainingAfterError(selected_docs)
                   /\ batchLog' = [batchLog EXCEPT !.handled = @ + 1, !.raised = @ + 1,
                                                    !.last = "raise",
                                                    !.calls = <<"extract">>]
                   /\ UNCHANGED <<warnings, processed_documents, total_chunks,
                                  store, lastAdd, lastStored>>
              [] ex = "empty" ->
                   /\ warnings' = Append(warnings, MsgWarnNoText)
                   /\ selected_docs' = Tail(selected_docs)
                   /\ batchLog' = [batchLog EXCEPT !.handled = @ + 1, !.empty = @ + 1,
                                                    !.last = "empty",
                                                    !.calls = <<"extract">>]
                   /\ UNCHANGED <<errors, processed_documents, total_chunks,
                                  store, lastAdd, lastStored>>
              [] ex = "text" ->
                   \E n \in ChunkCounts(doc), m \in 0..MaxChunks :
                     \E outcome \in AddOutcomes(store, n, m) :
                       /\ IF MenuCallsAdd(n, m)
                          THEN /\ store' = AddDocumentsStore(store, doc, n, outcome)
                               /\ lastAdd' = <<n, m>>
                          ELSE UNCHANGED <<store, lastAdd>>
                       /\ lastStored' =
                            IF doc \in GetAllDocumentSources(store' \ store)
                            THEN [lastStored EXCEPT !.files = @ \cup {doc}]
                            ELSE lastStored
                       /\ total_chunks' = total_chunks + ChunksAdded(n, m, outcome)
                       /\ processed_documents' = processed_documents + 1
                       /\ selected_docs' = Tail(selected_docs)
                       /\ batchLog' = [batchLog EXCEPT !.handled = @ + 1,
                                                        !.last = PipelineTag(n, m, outcome),
                                                        !.calls = PipelineCalls(n, m)]
                       /\ UNCHANGED <<errors, warnings>>
    /\ pc' = IF selected_docs' = <<>> THEN "loop" ELSE "batch"
    /\ UNCHANGED <<orch, documents, context, menu_items, selected, result,
                   rejected, dispatched, interrupted, crashed, batchSize,
                   nBatches>>

\* ------------------------------------------ DefaultIngestionOrchestrator
\* an IngestionResult built by one of the early returns of ingest_documents
DefEarlyResult(ok, errs, warns) ==
    [success |-> ok, documents_processed |-> 0, chunks_ingested |-> 0,
     errors |-> errs, warnings |-> warns]

\* step 8 of ingest_documents: the result after the processing loop
DefFinalResult(nproc, nchunks, errs, warns) ==
    [success |-> nproc > 0, documents_processed |-> nproc,
     chunks_ingested |-> nchunks, errors |-> errs, warnings |-> warns]

\* is add_documents reached in the processing loop for n chunks and m
\* embeddings (lines 276 and 289)
DefCallsAdd(n, m) == n # 0 /\ m # 0

RECURSIVE DeleteSources(_, _)
\* delete_documents_by_source called for each file of a set
DeleteSources(st, sources) ==
    IF sources = {} THEN st
    ELSE LET f == CHOOSE x \in sources : TRUE
         IN DeleteSources(DeleteDocumentsBySource(st, f), sources \ {f})

\* _handle_files_only_in_db_menu has not returned after a valid entry
NoDbChoice == [choice |-> "", confirmed |-> FALSE, deleted |-> <<>>]

\* what _handle_files_only_in_db_menu did: the entry, whether
\* confirm_action answered True, and the delete_documents_by_source calls
\* of its for loop, one per member of the set iterated
DbChoice(choice, confirmed, files) ==
    [choice |-> choice, confirmed |-> confirmed, deleted |-> Sorted(files)]

DefUnchangedHistory ==
    UNCHANGED <<orch, documents, menu_items, selected, entry, interrupted,
                batchLog, batchSize, nBatches, lastAdd, lastStored,
                batch_limit, pnf_result, process_result, treeVars, chunkVars,
                auxVars>>

\* steps 1-4: load the documents, read the sources, categorise, display
DefStart ==
    /\ orch = "default" /\ pc = "start"
    /\ IF documents = <<>>
       THEN /\ result' = DefEarlyResult(FALSE, <<DMsgNoDocuments>>, <<>>)
            /\ pc' = "done"
            /\ context' = context
       ELSE /\ context' = CreateIngestionContext(Range(documents),
                                                 GetAllDocumentSources(store))
            /\ pc' = "d_main"
            /\ result' = result
    /\ UNCHANGED <<store, selected_docs, processed_documents, total_chunks,
                   errors, warnings, rejected, dispatched, crashed>>
    /\ DefUnchangedHistory
    /\ UNCHANGED db_choice

DefMainChoices == {"0", "1", "2", "3", "4", "5", "9"}
Faults == {"none", "interrupt", "eof"}

\* step 5: the prompt "Enter your choice (0-5)"
DefMainMenu ==
    /\ orch = "default" /\ pc = "d_main"
    /\ \E main_choice \in DefMainChoices, fault \in Faults :
         CASE fault = "interrupt" ->
                /\ result' = DefEarlyResult(TRUE, <<>>, <<DMsgOpCancelled>>)
                /\ pc' = "done"
                /\ UNCHANGED <<rejected, dispatched, crashed>>
           [] fault = "eof" ->
                /\ result' = ExceptResult(MsgEOF)
                /\ pc' = "done"
                /\ crashed' = TRUE
                /\ UNCHANGED <<rejected, dispatched>>
           [] fault = "none" /\ main_choice = "0" ->
                /\ result' = DefEarlyResult(TRUE, <<>>, <<DMsgUserCancelled>>)
                /\ pc' = "done"
                /\ UNCHANGED <<rejected, dispatched, crashed>>
           [] fault = "none" /\ main_choice \in {"1", "2", "3", "4", "5"} ->
                /\ dispatched' = main_choice
                /\ pc' = "d_sub"
                /\ rejected' = FALSE
                /\ UNCHANGED <<result, crashed>>
           [] OTHER ->
                /\ rejected' = TRUE
                /\ UNCHANGED <<pc, result, dispatched, crashed>>
    /\ UNCHANGED <<store, context, selected_docs, processed_documents,
                   total_chunks, errors, warnings>>
    /\ DefUnchangedHistory
    /\ UNCHANGED db_choice

\* steps 6-7: a sub-menu returned files_to_process, having left the store
\* as st: either nothing is selected or the processing loop is entered
DefSelected(files, st) ==
    /\ store' = st
    /\ IF files = {}
       THEN /\ result' = DefEarlyResult(TRUE, <<>>, <<DMsgNoneSelected>>)
            /\ pc' = "done"
            /\ selected_docs' = selected_docs
       ELSE /\ selected_docs' = FilterDocs(documents, files)
            /\ pc' = "d_batch"
            /\ result' = result
    /\ UNCHANGED <<rejected, crashed>>

\* a sub-menu prompt was interrupted (the sub-menu returns the empty set)
\* or hit EOF (the outer except branch of ingest_documents reports it)
DefSubFault(fault) ==
    IF fault = "interrupt"
    THEN DefSelected({}, store)
    ELSE /\ result' = ExceptResult(MsgEOF)
         /\ pc' = "done"
         /\ crashed' = TRUE
         /\ UNCHANGED <<store, selected_docs, rejected>>

\* an entry the sub-menu rejects: it prompts again
DefSubRejected ==
    /\ rejected' = TRUE
    /\ UNCHANGED <<pc, result, store, selected_docs, crashed>>

TypesOf(files) == {ExtOf[f] : f \in files}

DefSubFrame ==
    /\ UNCHANGED <<context, processed_documents, total_chunks, errors,
                   warnings, dispatched>>
    /\ DefUnchangedHistory

\* _handle_new_files_menu
DefNewFilesMenu ==
    /\ orch = "default" /\ pc = "d_sub" /\ dispatched = "1"
    /\ \E choice \in {"0", "1", "2", "3", "4", "9"}, fault \in Faults,
          confirmed \in BOOLEAN, sel \in SUBSET context.new,
          type \in TypesOf(Files) :
         CASE fault # "none" -> DefSubFault(fault)
           [] fault = "none" /\ choice \in {"0", "4"} -> DefSelected({}, store)
           [] fault = "none" /\ choice = "1" ->
                DefSelected(IF confirmed THEN context.new ELSE {}, store)
           [] fault = "none" /\ choice = "2" ->
                DefSelected(IF sel # {} /\ confirmed THEN sel ELSE {}, store)
           [] fault = "none" /\ choice = "3" ->
                /\ type \in TypesOf(context.new)
                /\ DefSelected(IF confirmed THEN FilesOfType(context.new, type)
                                            ELSE {}, store)
           [] OTHER -> DefSubRejected
    /\ DefSubFrame
    /\ UNCHANGED db_choice

\* _handle_files_in_both_places_menu
DefBothMenu ==
    /\ orch = "default" /\ pc = "d_sub" /\ dispatched = "2"
    /\ \E choice \in {"0", "1", "2", "3", "4", "5", "6", "9"}, fault \in Faults,
          confirmed \in BOOLEAN, sel \in SUBSET context.both,
          type \in TypesOf(Files) :
         CASE fault # "none" -> DefSubFault(fault)
           [] fault = "none" /\ choice \in {"0", "4"} -> DefSelected({}, store)
           [] fault = "none" /\ choice = "1" ->
                IF confirmed
                THEN DefSelected(context.both, DeleteSources(store, context.both))
                ELSE DefSelected({}, store)
           [] fault = "none" /\ choice = "2" ->
                IF sel # {} /\ confirmed
                THEN DefSelected(sel, DeleteSources(store, sel))
                ELSE DefSelected({}, store)
           [] fault = "none" /\ choice = "3" ->
                /\ type \in TypesOf(context.both)
                /\ IF confirmed
                   THEN DefSelected(FilesOfType(context.both, type),
                                    DeleteSources(store, FilesOfType(context.both, type)))
                   ELSE DefSelected({}, store)
           [] fault = "none" /\ choice = "5" ->
                DefSelected(IF sel # {} /\ confirmed THEN context.both \ sel ELSE {},
                            store)
           [] fault = "none" /\ choice = "6" ->
                /\ type \in TypesOf(context.both)
                /\ DefSelected(IF confirmed
                               THEN context.both \ FilesOfType(context.both, type)
                               ELSE {}, store)
           [] OTHER -> DefSubRejected
    /\ DefSubFrame
    /\ UNCHANGED db_choice

\* _handle_files_only_in_db_menu (returns nothing: no file is processed)
DefDbOnlyMenu ==
    /\ orch = "default" /\ pc = "d_sub" /\ dispatched = "3"
    /\ \E choice \in {"0", "1", "2", "3", "4", "9"}, fault \in Faults,
          confirmed \in BOOLEAN, sel \in SUBSET context.orphaned,
          type \in TypesOf(Files) :
         CASE fault # "none" ->
                /\ DefSubFault(fault)
                /\ db_choice' = NoDbChoice
           [] fault = "none" /\ choice \in {"0", "4"} ->
                /\ DefSelected({}, store)
                /\ db_choice' = DbChoice(choice, FALSE, {})
           [] fault = "none" /\ choice = "1" ->
                LET deleted == IF confirmed THEN context.orphaned ELSE {}
                IN /\ DefSelected({}, DeleteSources(store, deleted))
                   /\ db_choice' = DbChoice(choice, confirmed, deleted)
           [] fault = "none" /\ choice = "2" ->
                LET deleted == IF sel # {} /\ confirmed THEN sel ELSE {}
                IN /\ DefSelected({}, DeleteSources(store, deleted))
                   /\ db_choice' = DbChoice(choice, sel # {} /\ confirmed,
                                            deleted)
           [] fault = "none" /\ choice = "3" ->
                LET deleted == IF confirmed
                               THEN FilesOfType(context.orphaned, type) ELSE {}
                IN /\ type \in TypesOf(context.orphaned)
                   /\ DefSelected({}, DeleteSources(store, deleted))
                   /\ db_choice' = DbChoice(choice, confirmed, deleted)
           [] OTHER ->
                /\ DefSubRejected
                /\ db_choice' = NoDbChoice
    /\ DefSubFrame

\* _handle_bulk_operations_menu
DefBulkMenu ==
    /\ orch = "default" /\ pc = "d_sub" /\ dispatched = "4"
    /\ \E choice \in {"0", "1", "2", "3", "9"}, fault \in Faults,
          confirmed \in BOOLEAN :
         CASE fault # "none" -> DefSubFault(fault)
           [] fault = "none" /\ choice \in {"0", "3"} -> DefSelected({}, store)
           [] fault = "none" /\ choice = "1" ->
                DefSelected(IF confirmed THEN context.new \cup context.both ELSE {},
                            store)
           [] fault = "none" /\ choice = "2" ->
                IF confirmed
                THEN DefSelected(context.new \cup context.both, {})
                ELSE DefSelected({}, store)
           [] OTHER -> DefSubRejected
    /\ DefSubFrame
    /\ UNCHANGED db_choice

\* _handle_advanced_options_menu with _custom_file_selection; options 1 and
\* 2 print a report and show the same menu again
DefAdvancedMenu ==
    /\ orch = "default" /\ pc = "d_sub" /\ dispatched = "5"
    /\ \E choice \in {"0", "1", "2", "3", "9"}, fault \in Faults,
          confirmed \in BOOLEAN,
          sel \in SUBSET (context.new \cup context.both) :
         CASE fault # "none" -> DefSubFault(fault)
           [] fault = "none" /\ choice = "0" -> DefSelected({}, store)
           [] fault = "none" /\ choice = "3" ->
                DefSelected(IF sel # {} /\ confirmed THEN sel ELSE {}, store)
           [] OTHER -> DefSubRejected
    /\ DefSubFrame
    /\ UNCHANGED db_choice

\* one pass of the processing loop (lines 248-316)
DefProcessDocument ==
    /\ UNCHANGED <<treeVars, chunkVars, auxVars, db_choice, batch_limit,
                   pnf_result, process_result>>
    /\ entry' = entry
    /\ orch = "default" /\ pc = "d_batch" /\ selected_docs # <<>>
    /\ LET document == Head(selected_docs)
       IN \E ex \in ExtractOutcomes, n \in ChunkCounts(document),
             m \in 0..MaxChunks :
            \E outcome \in AddOutcomes(store, n, m) :
              CASE ex = "raise" ->
                     /\ errors' = Append(errors, DMsgErrProcessing)
                     /\ UNCHANGED <<warnings, processed_documents, total_chunks,
                                    store, lastAdd>>
                [] ex = "empty" ->
                     /\ warnings' = Append(warnings, DMsgNoText)
                     /\ UNCHANGED <<errors, processed_documents, total_chunks,
                                    store, lastAdd>>
                [] ex = "text" /\ n = 0 ->
                     /\ warnings' = Append(warnings, DMsgNoChunks)
                     /\ UNCHANGED <<errors, processed_documents, total_chunks,
                                    store, lastAdd>>
                [] ex = "text" /\ n # 0 /\ ~DefCallsAdd(n, m) ->
                     /\ errors' = Append(errors, DMsgEmbedFail)
                     /\ UNCHANGED <<warnings, processed_documents, total_chunks,
                                    store, lastAdd>>
                [] OTHER ->
                     /\ store' = AddDocumentsStore(store, document, n, outcome)
                     /\ lastAdd' = <<n, m>>
                     /\ IF AddDocumentsReturn(outcome)
                        THEN /\ processed_documents' = processed_documents + 1
                             /\ total_chunks' = total_chunks + n
                             /\ errors' = errors
                        ELSE /\ errors' = Append(errors, DMsgStoreFail)
                             /\ UNCHANGED <<processed_documents, total_chunks>>
                     /\ warnings' = warnings
    /\ selected_docs' = Tail(selected_docs)
    /\ UNCHANGED <<orch, pc, documents, context, menu_items, selected, result,
                   rejected, dispatched, interrupted, crashed, batchLog,
                   batchSize, nBatches, lastStored>>

\* step 8: the loop is over, the result is returned
DefReturn ==
    /\ UNCHANGED <<treeVars, chunkVars, auxVars, db_choice, batch_limit,
                   pnf_result, process_result>>
    /\ entry' = entry
    /\ orch = "default" /\ pc = "d_batch" /\ selected_docs = <<>>
    /\ result' = DefFinalResult(processed_documents, total_chunks, errors, warnings)
    /\ pc' = "done"
    /\ UNCHANGED <<orch, documents, store, context, menu_items, selected,
                   selected_docs, processed_documents, total_chunks, errors,
                   warnings, rejected, dispatched, interrupted, crashed,
                   batchLog, batchSize, nBatches, lastAdd, lastStored>>

NextDefault ==
    \/ DefStart
    \/ DefMainMenu
    \/ DefNewFilesMenu
    \/ DefBothMenu
    \/ DefDbOnlyMenu
    \/ DefBulkMenu
    \/ DefAdvancedMenu
    \/ DefProcessDocument
    \/ DefReturn

NextMenu ==
    \/ MenuStart
    \/ MenuLoopTop
    \/ EnterChoice
    \/ KeyboardInterruptAtPrompt
    \/ ExceptionAtPrompt
    \/ PnfMenu
    \/ PnfSelect
    \/ PnfType
    \/ Confirm
    \/ ProcessDocument
    \/ MenuReturn

Next == NextMenu \/ NextDefault

Spec == Init /\ [][Next]_vars

\* ------------------------------ a menu run with one more batch
\* a run of the menu orchestrator over a folder of two files and an empty
\* collection, in which the dialogue is opened for one batch more.  The
\* two files have different names, or the same name in two directories
\* (load_documents walks the folder with rglob and keeps file_path.name)
InitAccumulate ==
    /\ orch = "menu"
    /\ documents \in {<<"a.txt", "b.txt">>, <<"a.txt", "a.txt">>}
    /\ store = {}
    /\ batch_limit = MaxBatches + 1
    /\ RunFresh
    /\ TreeIdle
    /\ ChunkerIdle
    /\ AuxIdle

SpecAccumulate == InitAccumulate /\ [][NextMenu]_vars

\* ------------------------------------- MenuBuilder and the generic run
\* MenuChoice: BACK and EXIT have the same value
MenuChoiceBACK == "0"
MenuChoiceEXIT == "0"
MenuChoiceHELP == "h"

\* the ids a client gives to its own items
ItemIds == {"0", "1"}

\* what may be typed at the prompt of the generic run
TreeChoices == {"0", "1", "h", "9"}

\* MenuGroup.__init__: no item; parent is the group it was started in
NewGroup(parent) == [items |-> <<>>, parent |-> parent]

\* the MenuItem add_command creates: always enabled and visible
BuilderItem(command, choice_id) ==
    [id |-> choice_id, enabled |-> TRUE, visible |-> TRUE, command |-> command]

RECURSIVE TotalItems(_, _)
\* the items of the groups g..Len(ms) together
TotalItems(ms, g) ==
    IF g > Len(ms) THEN 0 ELSE Len(ms[g].items) + TotalItems(ms, g + 1)

\* MenuGroup.add_menu_item on group g: the item is appended and
\* _choice_map[item.id] is set to its component (see CommandOf for the map)
AddMenuItem(g, item) ==
    /\ TotalItems(menus, 1) < MaxItems
    /\ menus' = [menus EXCEPT ![g].items = Append(@, item)]

TreeFrame == UNCHANGED <<runVars, chunkVars, auxVars, tpc, handled>>

\* MenuBuilder.start_menu
StartMenu ==
    /\ tpc = "build" /\ Len(menus) < MaxGroups
    /\ menus' = Append(menus, NewGroup(current))
    /\ stack' = IF current # 0 THEN Append(stack, current) ELSE stack
    /\ current' = Len(menus) + 1
    /\ TreeFrame

\* MenuBuilder.add_command (it raises ValueError when no menu was started)
AddCommand ==
    /\ tpc = "build" /\ current # 0
    /\ \E choice_id \in ItemIds : AddMenuItem(current, BuilderItem("cmd", choice_id))
    /\ UNCHANGED <<current, stack>>
    /\ TreeFrame

\* MenuBuilder.add_back_command
AddBackCommand ==
    /\ tpc = "build" /\ current # 0
    /\ AddMenuItem(current, BuilderItem("back", MenuChoiceBACK))
    /\ UNCHANGED <<current, stack>>
    /\ TreeFrame

\* MenuBuilder.add_exit_command
AddExitCommand ==
    /\ tpc = "build" /\ current # 0
    /\ AddMenuItem(current, BuilderItem("exit", MenuChoiceEXIT))
    /\ UNCHANGED <<current, stack>>
    /\ TreeFrame

\* MenuBuilder.add_help_command
AddHelpCommand ==
    /\ tpc = "build" /\ current # 0
    /\ AddMenuItem(current, BuilderItem("help", MenuChoiceHELP))
    /\ UNCHANGED <<current, stack>>
    /\ TreeFrame

\* MenuBuilder.end_menu (nothing happens when the stack is empty)
EndMenu ==
    /\ tpc = "build" /\ stack # <<>>
    /\ current' = stack[Len(stack)]
    /\ stack' = SubSeq(stack, 1, Len(stack) - 1)
    /\ menus' = menus
    /\ TreeFrame

\* MenuGroup.add_menu_item called by a client with a MenuItem of its own,
\* which may be disabled or hidden
AddMenuItemDirect ==
    /\ tpc = "build"
    /\ \E g \in 1..Len(menus), id \in ItemIds, enabled \in BOOLEAN, visible \in BOOLEAN :
         AddMenuItem(g, [id |-> id, enabled |-> enabled, visible |-> visible,
                         command |-> "cmd"])
    /\ UNCHANGED <<current, stack>>
    /\ TreeFrame

\* MenuBuilder.build (it raises ValueError when no menu was started)
Build ==
    /\ tpc = "build" /\ menus # <<>>
    /\ tpc' = "built"
    /\ UNCHANGED <<runVars, chunkVars, auxVars, menus, current, stack, handled>>

\* MenuGroup.handle_input followed by MenuCommandItem.handle_input: a choice
\* that is no key of _choice_map raises ValueError, any other executes the
\* command of the component the map holds for it
GroupHandleInput(items, choice) ==
    IF choice \notin ChoiceMap(items)
    THEN [choice |-> choice, command |-> "", action |-> "ValueError"]
    ELSE [choice |-> choice, command |-> CommandOf(items, choice),
          action |-> SimpleCommandAction(CommandOf(items, choice))]

\* handle_input called on the root group by a client
HandleInput ==
    /\ tpc = "built"
    /\ \E choice \in TreeChoices :
         handled' = GroupHandleInput(menus[1].items, choice)
    /\ UNCHANGED <<runVars, chunkVars, auxVars, menus, current, stack, tpc>>

\* MenuOrchestrator.run is called on the root: current_menu = root_menu,
\* the menu is displayed and the prompt issued
RunStart ==
    /\ tpc = "built"
    /\ tpc' = "prompt"
    /\ handled' = NoHandled
    /\ UNCHANGED <<runVars, chunkVars, auxVars, menus, current, stack>>

\* one entry at the prompt of run: _get_user_choice rejects it, or it is
\* handled by current_menu (always the root) and _process_result decides
\* whether the loop ends
RunChoice ==
    /\ tpc = "prompt"
    /\ \E choice \in TreeChoices :
         IF ~ChoiceAccepted(menus[1].items, choice)
         THEN UNCHANGED <<tpc, handled>>
         ELSE LET h == GroupHandleInput(menus[1].items, choice)
              IN /\ handled' = h
                 /\ tpc' = IF h.action = "ValueError" \/ AfterResult(h.action) = "ret"
                            THEN "ended" ELSE "prompt"
    /\ UNCHANGED <<runVars, chunkVars, auxVars, menus, current, stack>>

\* KeyboardInterrupt or another exception at the prompt: run breaks
RunInterrupted ==
    /\ tpc = "prompt"
    /\ tpc' = "ended"
    /\ UNCHANGED <<runVars, chunkVars, auxVars, menus, current, stack, handled>>

InitMenuTree == RunIdle /\ ChunkerIdle /\ AuxIdle /\ TreeIdle

NextMenuTree ==
    \/ StartMenu
    \/ AddCommand
    \/ AddBackCommand
    \/ AddExitCommand
    \/ AddHelpCommand
    \/ EndMenu
    \/ AddMenuItemDirect
    \/ Build
    \/ HandleInput
    \/ RunStart
    \/ RunChoice
    \/ RunInterrupted

SpecMenuTree == InitMenuTree /\ [][NextMenuTree]_vars

\* ------------------------------------------- the chunker on its own
\* the values of config.chunk_min_length the chunker is called with
MinLengths == {1, ChunkMinLength}

\* the arguments of a chunk_text call
ChunkInputs ==
    UNION {[text : Texts(m), source_file : Files, min_length : {m}] :
             m \in MinLengths}

InitChunker ==
    /\ RunIdle /\ TreeIdle /\ AuxIdle
    /\ chunk_input \in ChunkInputs
    /\ chunks = <<>>
    /\ prev_chunks = <<>>

\* one call of chunk_text; the arguments of the next call are chosen
ChunkTextCall ==
    /\ chunks' = ChunkText(chunk_input.text, chunk_input.min_length,
                            chunk_input.source_file)
    /\ prev_chunks' = chunks
    /\ chunk_input' \in ChunkInputs
    /\ UNCHANGED <<runVars, treeVars, auxVars>>

NextChunker == ChunkTextCall

SpecChunker == InitChunker /\ [][NextChunker]_vars

\* ------------------------------ chunk_text_with_custom_strategy
\* the pieces a split leaves, by their stripped lengths (0: nothing left)
Pieces == SeqsUpTo({0, 1}, MaxChunks)

RECURSIVE KeptIndexes(_, _)
\* the positions (counted from 1) of the pieces that are not empty
KeptIndexes(pieces, i) ==
    IF i > Len(pieces) THEN <<>>
    ELSE IF pieces[i] = 0 THEN KeptIndexes(pieces, i + 1)
    ELSE <<i>> \o KeptIndexes(pieces, i + 1)

\* _chunk_by_paragraphs: _split_into_paragraphs drops the empty pieces,
\* then the remaining ones are enumerated
ChunkByParagraphs(pieces) ==
    LET kept == KeptIndexes(pieces, 1)
    IN [k \in 1..Len(kept) |->
          [id |-> "chunk_{i}", source_file |-> "unknown",
           chunk_index |-> k - 1, length |-> pieces[kept[k]],
           metadata |-> [chunk_index |-> k - 1, strategy |-> "paragraph"]]]

\* _chunk_by_sentences: every piece is enumerated, the empty ones make
\* no chunk
ChunkBySentences(pieces) ==
    LET kept == KeptIndexes(pieces, 1)
    IN [k \in 1..Len(kept) |->
          [id |-> "chunk_{i}", source_file |-> "unknown",
           chunk_index |-> kept[k] - 1, length |-> pieces[kept[k]],
           metadata |-> [chunk_index |-> kept[k] - 1,
                         strategy |-> "sentence"]]]

\* len(text[start:end]); a negative bound counts from the end of the
\* string and every bound is clipped to it
SliceLen(length, start, end) ==
    LET Bound(x) == IF x < 0 THEN (IF length + x < 0 THEN 0 ELSE length + x)
                    ELSE IF x > length THEN length ELSE x
    IN IF Bound(end) > Bound(start) THEN Bound(end) - Bound(start) ELSE 0

InitStrategy == RunIdle /\ TreeIdle /\ ChunkerIdle /\ AuxIdle

\* chunk_text_with_custom_strategy with "paragraph" or "sentence": the
\* whole call
SplitStrategyCall ==
    /\ spc # "loop"
    /\ \E st \in {"paragraph", "sentence"}, pieces \in Pieces :
         /\ strategy' = st
         /\ schunks' = IF st = "paragraph" THEN ChunkByParagraphs(pieces)
                       ELSE ChunkBySentences(pieces)
    /\ spc' = "returned"
    /\ fs' = NoFixedSize
    /\ UNCHANGED <<runVars, treeVars, chunkVars, file_choice, rag, vector_store>>

\* chunk_text_with_custom_strategy with "fixed_size", up to the while
\* loop: chunk_size and overlap are taken from kwargs as they are
FixedSizeStart ==
    /\ spc # "loop"
    /\ \E length \in 0..MaxTextLen, chunk_size \in 1..MaxChunkSize,
          overlap \in 0..MaxChunkSize :
         fs' = [length |-> length, chunk_size |-> chunk_size,
                overlap |-> overlap, start |-> 0]
    /\ strategy' = "fixed_size"
    /\ schunks' = <<>>
    /\ spc' = "loop"
    /\ UNCHANGED <<runVars, treeVars, chunkVars, file_choice, rag, vector_store>>

\* one pass of the while loop of _chunk_by_fixed_size
FixedSizeStep ==
    /\ spc = "loop" /\ fs.start < fs.length
    /\ Len(schunks) < MaxWindows
    /\ LET end == fs.start + fs.chunk_size
           chunk_index == Len(schunks)
       IN /\ schunks' = Append(schunks,
               [id |-> "chunk_{chunk_index}", source_file |-> "unknown",
                chunk_index |-> chunk_index,
                length |-> SliceLen(fs.length, fs.start, end),
                metadata |-> [chunk_index |-> chunk_index,
                              strategy |-> "fixed_size",
                              start |-> fs.start, end |-> end]])
          /\ fs' = [fs EXCEPT !.start = end - fs.overlap]
    /\ UNCHANGED <<strategy, spc>>
    /\ UNCHANGED <<runVars, treeVars, chunkVars, file_choice, rag, vector_store>>

\* the while condition fails: _chunk_by_fixed_size returns the chunks
FixedSizeReturn ==
    /\ spc = "loop" /\ ~(fs.start < fs.length)
    /\ spc' = "returned"
    /\ UNCHANGED <<strategy, fs, schunks>>
    /\ UNCHANGED <<runVars, treeVars, chunkVars, file_choice, rag, vector_store>>

NextStrategy ==
    \/ SplitStrategyCall
    \/ FixedSizeStart
    \/ FixedSizeStep
    \/ FixedSizeReturn

SpecStrategy == InitStrategy /\ [][NextStrategy]_vars


\* ------------------------------- the "Your selection:" prompt on its own
\* option 2 of ProcessNewFilesCommand.execute from the prompt to the test
\* "if selected_files and ...": one entry against one set of new files
SelectCall ==
    /\ \E tokens \in SelectInputs, new_files \in SUBSET Files \ {{}} :
         file_choice' = [pc |-> "parsed", tokens |-> tokens,
                         new_files |-> new_files,
                         result |-> ParseSelection(tokens, new_files)]
    /\ UNCHANGED <<runVars, treeVars, chunkVars, strategyVars, rag, vector_store>>

InitSelect == RunIdle /\ TreeIdle /\ ChunkerIdle /\ AuxIdle

SpecSelect == InitSelect /\ [][SelectCall]_vars


\* ------------------------------------------- RAGSystem.generate_rag_response
\* getattr(settings, "min_relevance_score", 0.5), in tenths
MinRelevanceScore == 5

\* what query(..., include_scores=True) may return: up to MaxResults
\* results, each a (document, score) tuple with a score below, at or above
\* the threshold, or a value of another shape (scored is FALSE)
RagResults ==
    SeqsUpTo([doc : {"d1", "d2"},
              score : {MinRelevanceScore - 1, MinRelevanceScore,
                       MinRelevanceScore + 1},
              scored : BOOLEAN], MaxResults)

\* the test of line 274 taken with > in place of >=
QualifiesStrictly(score) == score > MinRelevanceScore

\* line 274: score >= self.MIN_RELEVANCE_SCORE
Qualifies(score) == score >= MinRelevanceScore

\* lines 266-291: the page contents of the results kept, in the order of
\* the results; joined by "\n---\n" they are the context, "" when none
RECURSIVE RagContext(_)
RagContext(results) ==
    IF results = <<>> THEN <<>>
    ELSE LET first == Head(results)
         IN (IF first.scored /\ Qualifies(first.score)
             THEN <<first.doc>> ELSE <<>>) \o RagContext(Tail(results))

\* line 264: self.query returns the results or raises (the exception
\* leaves generate_rag_response)
RagQuery ==
    /\ rag.pc # "retrieved"
    /\ \/ \E results \in RagResults :
            rag' = [pc |-> "retrieved", results |-> results,
                    context |-> <<>>, llm_calls |-> 0]
       \/ rag' = [pc |-> "raised", results |-> <<>>, context |-> <<>>,
                  llm_calls |-> 0]
    /\ UNCHANGED <<runVars, treeVars, chunkVars, strategyVars, file_choice,
                   vector_store>>

\* lines 265-293: filter, context, prompt and the one call of
\* generate_llm_response, which returns the answer or raises
RagRespond ==
    /\ rag.pc = "retrieved"
    /\ \E outcome \in {"done", "raised"} :
         rag' = [rag EXCEPT !.pc = outcome,
                            !.context = RagContext(rag.results),
                            !.llm_calls = @ + 1]
    /\ UNCHANGED <<runVars, treeVars, chunkVars, strategyVars, file_choice,
                   vector_store>>

\* add_documents testing the two lengths before the empty list
AddDocumentsBranchLengthsFirst(ndocs, nemb) ==
    IF ndocs # nemb THEN "mismatch"
    ELSE IF ndocs = 0 THEN "empty" ELSE "store"

\* VectorStore.add_documents of rag_system, lines 85-92: which way a call
\* with this many documents and embeddings goes
AddDocumentsBranch(ndocs, nemb) ==
    IF ndocs = 0 THEN "empty"
    ELSE IF ndocs # nemb THEN "mismatch" ELSE "store"

\* VectorStore.add_documents of rag_system, called as RAGSystem does
\* (ids is None): [] for no documents, ValueError for differing lengths,
\* otherwise the wrapper's add_documents is called, which stores the
\* documents or raises (it raises when the collection is gone), and the
\* generated ids, one per document, are returned
VectorStoreAddDocuments ==
    /\ \E ndocs \in 0..MaxChunks, nemb \in 0..MaxChunks,
          stored \in BOOLEAN :
         LET branch == AddDocumentsBranch(ndocs, nemb)
             written == branch = "store" /\ stored /\ vector_store.collection
         IN /\ vector_store.count + ndocs <= MaxStored
            /\ vector_store' =
                 [vector_store EXCEPT
                    !.op = "add_documents",
                    !.documents = ndocs, !.embeddings = nemb,
                    !.before = vector_store.count,
                    !.count = IF written THEN @ + ndocs ELSE @,
                    !.outcome = IF branch = "empty" \/ written
                                THEN "returned" ELSE "raised",
                    !.ids = IF written THEN ndocs ELSE 0]
    /\ UNCHANGED <<runVars, treeVars, chunkVars, strategyVars, file_choice,
                   rag>>

\* RAGSystem.clear_database: delete_collection deletes the collection or
\* raises; then VectorStore(embedding_function=...) is called without the
\* required argument settings, a TypeError that the except clause logs
\* and raises again, so self.vector_store stays the old object
ClearDatabase ==
    /\ \E deleted \in BOOLEAN :
         vector_store' =
           [vector_store EXCEPT
              !.op = "clear_database", !.cleared = TRUE,
              !.documents = 0, !.embeddings = 0,
              !.before = vector_store.count,
              !.collection = IF deleted THEN FALSE ELSE @,
              !.count = IF deleted THEN 0 ELSE @,
              !.outcome = "raised",
              !.ids = 0]
    /\ UNCHANGED <<runVars, treeVars, chunkVars, strategyVars, file_choice,
                   rag>>

\* RAGSystem.get_system_stats: client.get_collection raises when the
\* collection does not exist, and the exception is raised again
GetSystemStats ==
    /\ vector_store' =
         [vector_store EXCEPT
            !.op = "get_system_stats",
            !.documents = 0, !.embeddings = 0, !.ids = 0,
            !.before = vector_store.count,
            !.outcome = IF vector_store.collection THEN "returned"
                        ELSE "raised"]
    /\ UNCHANGED <<runVars, treeVars, chunkVars, strategyVars, file_choice,
                   rag>>

InitRag == RunIdle /\ TreeIdle /\ ChunkerIdle /\ AuxIdle

SpecRag == InitRag /\ [][RagQuery \/ RagRespond]_vars

\* the vector store of a RAGSystem used from its construction on
SpecVectorStore ==
    InitRag /\ [][VectorStoreAddDocuments \/ ClearDatabase
                    \/ GetSystemStats]_vars


\* ================================================================ claims

\* the states in which the categorisation has just been computed and
\* neither the folder nor the store has changed since
PartitionCurrent == pc \in PromptPcs \cup {"d_main", "d_sub"}

\* C1: the partition both orchestrators compute is NEW = L - S,
\* BOTH = L intersect S, ORPHANED = S - L; the three sets are pairwise
\* disjoint and their union is L union S.
C1_PartitionComplete ==
    PartitionCurrent =>
      LET L == Range(documents)
          S == GetAllDocumentSources(store)
      IN /\ context.new = L \ S
         /\ context.both = L \cap S
         /\ context.orphaned = S \ L
         /\ context.new \cap context.both = {}
         /\ context.new \cap context.orphaned = {}
         /\ context.both \cap context.orphaned = {}
         /\ context.new \cup context.both \cup context.orphaned = L \cup S

C1_Witness ==
    /\ PartitionCurrent
    /\ context.new # {} /\ context.both # {} /\ context.orphaned # {}

C3_FailureIsolated ==
    [][ /\ (orch = "menu" /\ pc = "batch") =>
             /\ Len(selected_docs') = Len(selected_docs) - 1
             /\ batchLog'.last = "raise" =>
                  /\ errors' = Append(errors, MsgErrProcessing)
                  /\ warnings' = warnings
             /\ batchLog'.last # "raise" => errors' = errors
             /\ pc' # "batch" => batchLog'.handled = batchSize
        /\ (orch = "menu" /\ pc = "ret" /\ pc' = "done" /\ nBatches = 1
              /\ batchSize = 3 /\ batchLog.raised = 1 /\ batchLog.empty = 0) =>
             /\ result'.documents_processed = 2
             /\ Len(result'.errors) = 1
             /\ result'.success = FALSE
      ]_vars

C3_Witness ==
    /\ orch = "menu" /\ pc = "done"
    /\ nBatches = 1 /\ batchSize = 3
    /\ batchLog.handled = 3 /\ batchLog.raised = 1 /\ batchLog.empty = 0
    /\ result.documents_processed = 2
    /\ Len(result.errors) = 1

\* C4: every IngestionResult returned by ingest_documents, of either
\* orchestrator and on every return path, has success = True exactly when
\* its errors list is empty.
C4_SuccessIffNoErrors ==
    pc = "done" => (result.success <=> Len(result.errors) = 0)

\* C5: add_documents is never called with a list of embeddings whose length
\* differs from the length of the chunk list.
C5_AddLengthsMatch == lastAdd[1] = lastAdd[2]

\* C6: in IngestionMenuOrchestrator a document whose text was extracted but
\* which yields no chunks, or whose embedding count differs from its chunk
\* count, adds a warning or error string to the result (an error for the
\* embedding mismatch).
C6_ContentErrorsRecorded ==
    [][ (orch = "menu" /\ pc = "batch") =>
          /\ batchLog'.last = "nochunks" =>
               Len(errors') + Len(warnings') > Len(errors) + Len(warnings)
          /\ batchLog'.last = "embfail" => Len(errors') > Len(errors)
      ]_vars

\* C7: in IngestionMenuOrchestrator a document for which add_documents
\* returned False adds an error string to the result, and the remaining
\* documents of the batch are still processed.
C7_StoreFailureRecorded ==
    [][ (orch = "menu" /\ pc = "batch" /\ batchLog'.last = "storefail") =>
          /\ Len(errors') = Len(errors) + 1
          /\ selected_docs' = Tail(selected_docs)
      ]_vars

\* C8: a keyboard interrupt at any blocking input point of a menu run ends
\* the loop: no further prompt is issued and the accumulated result is
\* returned.
C8_InterruptEndsLoop ==
    (orch = "menu" /\ interrupted) => pc \in {"ret", "done"}

\* C9: a menu loop ended by an unexpected exception is reported: the result
\* holds an error string and success = False.
C9_NoSilentFailure ==
    (orch = "menu" /\ pc = "done" /\ crashed) =>
      (Len(result.errors) > 0 /\ result.success = FALSE)

\* C10: an entry at the menu prompt that is not the id of a visible and
\* enabled item is rejected without any transition (nothing dispatched, the
\* menu, the store and the accumulated result unchanged, the run not
\* ended), and a valid id entered at the prompt, also after a rejection, is
\* dispatched.
C10_InvalidChoiceRejected ==
    [][ (orch = "menu" /\ pc = "choice" /\ entry' \notin {"^C", "^D"}) =>
          IF entry' \in GetValidChoices(menu_items)
          THEN dispatched' = entry' /\ pc' # "choice" /\ ~crashed'
          ELSE /\ pc' = "choice"
               /\ UNCHANGED <<dispatched, menu_items, context, store, selected,
                              selected_docs, processed_documents, total_chunks,
                              errors, warnings, result, crashed,
                              interrupted>>
      ]_vars

C10_Witness ==
    /\ orch = "menu" /\ pc = "ret"
    /\ rejected /\ entry = "0" /\ dispatched = "0"
    /\ ~crashed /\ ~interrupted

\* C11: MenuGroup.handle_input dispatches a choice to a component exactly
\* when the choice is the id of an item of the group that is enabled and
\* visible; the id of a disabled or hidden item is rejected.
C11_OnlyValidDispatched ==
    (tpc = "built" /\ handled # NoHandled) =>
      (handled.command # "" <=> handled.choice \in GetValidChoices(menus[1].items))

\* C12: a BACK result makes run leave the current menu for its parent, and
\* at the root (run never has another current menu) it ends the run as
\* EXIT does.
C12_BackEndsRunAtRoot ==
    [][ (tpc = "prompt" /\ handled' # handled /\ handled'.action = "back") =>
          tpc' = "ended"
      ]_vars

\* C13: run ends after a dispatched command returned EXIT and then neither
\* displays, prompts nor dispatches; a CONTINUE or CUSTOM_ACTION result
\* never ends the run: the custom action is interpreted first (the batch is
\* processed within the iteration), then the menu is displayed again with
\* a context created anew.
C13_ExitEndsContinueRedisplays ==
    [][ (orch = "menu") =>
          /\ (pc = "choice" /\ dispatched' # dispatched) =>
                LET command == CommandOf(menu_items, dispatched')
                IN IF command = "exit" THEN pc' = "ret"
                   ELSE IF command = "process_new_files" /\ context.new # {}
                   THEN pc' = "pnf_menu"
                   ELSE pc' = "loop"
          /\ (pc \in {"pnf_menu", "pnf_select", "pnf_type", "confirm", "batch"}
                /\ ~crashed') => pc' # "ret"
          /\ pc = "batch" => (pc' \in {"batch", "loop"} /\ context' = context)
          /\ pc = "loop" =>
                /\ pc' = "choice"
                /\ dispatched' = ""
                /\ selected_docs = <<>>
                /\ context' = CreateIngestionContext(Range(documents),
                                                     GetAllDocumentSources(store))
          /\ pc = "ret" =>
                /\ pc' = "done"
                /\ UNCHANGED <<entry, dispatched, store, context>>
          /\ pc = "done" => UNCHANGED vars
      ]_vars

C13_Witness ==
    /\ orch = "menu" /\ pc = "done"
    /\ dispatched = "0" /\ entry = "0"
    /\ nBatches = 1 /\ batchLog.handled = batchSize
    /\ ~crashed /\ ~interrupted

\* C14: no two items of one group of a menu tree built with MenuBuilder or
\* MenuGroup.add_menu_item have the same choice id.
C14_SiblingIdsUnique ==
    \A g \in 1..Len(menus) :
      \A i, j \in 1..Len(menus[g].items) :
        i # j => menus[g].items[i].id # menus[g].items[j].id

\* C15: with an empty store and a folder holding only a.txt, whose text is
\* one paragraph of 40 characters (minimal length 30), the first context
\* is NEW = {a.txt}, BOTH = {}, ORPHANED = {}; after "process new files",
\* "add all", the confirmation and exit (extraction, embedding and the
\* store having worked) the result has documents_processed = 1 and
\* chunks_ingested = 1 and the store holds a chunk of a.txt.  (At the end
\* of a run with one batch the store was empty at the start exactly when
\* it holds no source but a.txt: the menu run deletes nothing.)
C15_ScenarioA ==
    /\ (orch = "menu" /\ pc = "choice"
          /\ documents = <<"a.txt">> /\ store = {}) =>
         context = [new |-> {"a.txt"}, both |-> {}, orphaned |-> {}]
    /\ (orch = "menu" /\ pc = "done" /\ documents = <<"a.txt">>
          /\ GetAllDocumentSources(store) \subseteq {"a.txt"}
          /\ dispatched = "0" /\ nBatches = 1
          /\ batchLog.last = "stored"
          /\ lastAdd[1] = Len(ChunkText(<<40>>, ChunkMinLength, "a.txt"))
          /\ lastAdd[2] = lastAdd[1]
          /\ ~crashed /\ ~interrupted) =>
         /\ result.documents_processed = 1
         /\ result.chunks_ingested = 1
         /\ "a.txt" \in GetAllDocumentSources(store)

C15_Witness ==
    /\ orch = "menu" /\ pc = "done" /\ documents = <<"a.txt">>
    /\ dispatched = "0" /\ nBatches = 1
    /\ batchLog.last = "stored" /\ lastAdd = <<1, 1>>
    /\ store = {<<0, "a.txt">>}
    /\ result.documents_processed = 1 /\ result.chunks_ingested = 1

\* C16: with chunks of b.txt in the store and an empty folder the partition
\* is ORPHANED = {b.txt}, the operator gets a menu in which "delete all
\* orphaned" can be reached, and once the orphaned files were handled the
\* store's sources do not contain b.txt.
C16_OrphanedDeleted ==
    (documents = <<>> /\ ~crashed /\ ~interrupted) =>
      /\ (orch = "default" /\ pc = "done") => dispatched # ""
      /\ (orch = "menu" /\ pc = "loop" /\ dispatched = "3") =>
           "b.txt" \notin GetAllDocumentSources(store)

\* C17: after "Clear database" was selected in the ingestion menu and
\* carried out, the store holds no chunk and no source.  (The command asks
\* for no confirmation, so there is none to decline.)
C17_ClearDatabaseClears ==
    (orch = "menu" /\ pc = "loop" /\ dispatched = "4") => store = {}

\* C18: when the data directory does not exist (load_documents returns no
\* document) the partition has NEW = {} and BOTH = {} and ORPHANED equal to
\* the store's sources, and ingest_documents of either orchestrator reports
\* no failure: no error and success = True.
C18_MissingFolderNoFailure ==
    (documents = <<>> /\ ~crashed) =>
      /\ PartitionCurrent =>
           context = [new |-> {}, both |-> {},
                      orphaned |-> GetAllDocumentSources(store)]
      /\ (pc = "done" /\ (orch = "menu" => menu_items # <<>>)) =>
           (result.success /\ result.errors = <<>>)

\* C19: adding a document a second time, its text unchanged (the store
\* holds exactly its n chunks), leaves the number of chunks in the store as
\* it was and counts as a success: whatever collection.add does with the
\* ids already present, short of failing for another reason, add_documents
\* returns True, and the run records no error for the document.  (Only
\* DefaultIngestionOrchestrator adds a file the store already holds; the
\* menu run adds NEW files only.)
C19_ReAddIdempotent ==
    [][ (orch = "default" /\ pc = "d_batch" /\ selected_docs # <<>>) =>
          LET doc == Head(selected_docs)
              held == {p \in store : p[2] = doc}
              n == Cardinality(held)
          IN (n > 0 /\ held = {<<i, doc>> : i \in ChunkIds(n)}) =>
               /\ \A outcome \in AddOutcomes(store, n, n) \ {"fail"} :
                    /\ AddDocumentsReturn(outcome)
                    /\ Cardinality(AddDocumentsStore(store, doc, n, outcome))
                         = Cardinality(store)
               /\ (lastAdd' = <<n, n>>
                     /\ processed_documents' = processed_documents + 1) =>
                    (store' = store /\ errors' = errors)
      ]_vars

C19_Witness ==
    /\ orch = "default" /\ pc = "done" /\ dispatched = "5"
    /\ documents = <<"a.txt">> /\ context.both = {"a.txt"}
    /\ store = {<<0, "a.txt">>}
    /\ lastAdd = <<1, 1>> /\ processed_documents = 1
    /\ result.success /\ result.errors = <<>>

\* C20: the id of a chunk made by chunk_text is determined by its pair
\* (source_file, chunk_index): chunks of any two calls with the same pair
\* have the same id, chunks with different pairs have different ids.
C20_IdFromSourceAndIndex ==
    \A c1, c2 \in Range(chunks) \cup Range(prev_chunks) :
      (c1.source_file = c2.source_file /\ c1.chunk_index = c2.chunk_index)
        <=> c1.id = c2.id

\* C21: chunk_text returns, in order, exactly the paragraphs whose trimmed
\* length is at least chunk_min_length m: a paragraph of m - 1 characters
\* never appears, one of exactly m characters always does, and a text
\* without paragraphs (empty or whitespace only) yields the empty list.
C21_ShortFragmentDrop ==
    [][ LET ps == chunk_input.text
            m == chunk_input.min_length
            kept == {i \in 1..Len(ps) : ps[i] >= m}
        IN /\ Len(chunks') = Cardinality(kept)
           /\ \A k \in 1..Len(chunks') :
                 /\ chunks'[k].chunk_index + 1 \in kept
                 /\ chunks'[k].length = ps[chunks'[k].chunk_index + 1]
                 /\ \A j \in 1..(k - 1) :
                      chunks'[j].chunk_index < chunks'[k].chunk_index
           /\ \A i \in 1..Len(ps) :
                 /\ ps[i] = m - 1 =>
                      \A k \in 1..Len(chunks') : chunks'[k].chunk_index # i - 1
                 /\ ps[i] = m =>
                      \E k \in 1..Len(chunks') : chunks'[k].chunk_index = i - 1
           /\ ps = <<>> => chunks' = <<>>
      ]_vars

C21_Witness ==
    /\ Len(chunks) = 1
    /\ chunks[1].chunk_index = 1
    /\ chunks[1].length = ChunkMinLength

\* C22: every chunk made by the chunker, by chunk_text and by each
\* strategy of chunk_text_with_custom_strategy, has a metadata map with
\* the keys source and chunk_index.
C22_MetadataHasSourceAndIndex ==
    \A c \in Range(chunks) \cup Range(schunks) :
      {"source", "chunk_index"} \subseteq DOMAIN c.metadata

\* C23: _chunk_by_fixed_size terminates for every pair (chunk_size,
\* overlap) it accepts: it runs its loop only with overlap < chunk_size,
\* and the start position strictly increases at every pass.
C23_FixedSizeTerminates ==
    [][ (spc = "loop") =>
          /\ fs.overlap < fs.chunk_size
          /\ schunks' # schunks => fs'.start > fs.start
      ]_vars

\* C24: for each document of a batch of the menu orchestrator the steps
\* are called in the order extract, chunk, embed, store, each only after
\* the previous one succeeded: generate_embeddings is not called when
\* chunking returned no chunks, and add_documents is called (and the store
\* changed) only with chunks and as many embeddings, never after empty
\* text, no chunks or no embeddings.
C24_StepsGated ==
    [][ (orch = "menu" /\ pc = "batch") =>
          LET calls == batchLog'.calls
              order == <<"extract", "chunk", "embed", "store">>
              tag == batchLog'.last
          IN /\ Len(calls) >= 1
             /\ calls = SubSeq(order, 1, Len(calls))
             /\ tag \in {"raise", "empty"} => calls = <<"extract">>
             /\ tag = "nochunks" => calls = <<"extract", "chunk">>
             /\ tag = "embfail" => calls = <<"extract", "chunk", "embed">>
             /\ "store" \in Range(calls) =>
                  /\ lastAdd'[1] # 0
                  /\ lastAdd'[2] = lastAdd'[1]
                  /\ tag \in {"stored", "storefail"}
             /\ "store" \notin Range(calls) =>
                  (store' = store /\ lastAdd' = lastAdd)
      ]_vars

C24_Witness ==
    /\ orch = "menu" /\ pc = "batch"
    /\ batchLog.last = "embfail"
    /\ batchLog.calls = <<"extract", "chunk", "embed">>
    /\ batchLog.handled = 2 /\ batchSize = 3

C26_ResultAccumulates ==
    [][ (orch = "menu") =>
          /\ pc = "start" =>
                /\ processed_documents = 0 /\ total_chunks = 0
                /\ errors = <<>> /\ warnings = <<>>
          /\ pc = "batch" =>
                LET tag == batchLog'.last
                IN /\ processed_documents' = processed_documents +
                         (IF tag \in {"raise", "empty"} THEN 0 ELSE 1)
                   /\ total_chunks' = total_chunks +
                         (IF tag = "stored" THEN lastAdd'[1] ELSE 0)
                   /\ errors' = IF tag = "raise"
                                THEN Append(errors, MsgErrProcessing)
                                ELSE errors
                   /\ warnings' = IF tag = "empty"
                                  THEN Append(warnings, MsgWarnNoText)
                                  ELSE warnings
          /\ pc # "batch" =>
                /\ UNCHANGED <<processed_documents, total_chunks, errors>>
                /\ warnings' \in {warnings, Append(warnings, MsgWarnNoDocs)}
          /\ (pc = "ret" /\ pc' = "done") =>
                /\ result'.documents_processed = processed_documents
                /\ result'.chunks_ingested = total_chunks
                /\ result'.errors = errors
                /\ result'.warnings = warnings
      ]_vars

C26_Witness ==
    /\ orch = "menu" /\ pc = "done"
    /\ nBatches = 2 /\ batchSize = 1 /\ batchLog.handled = 1
    /\ result.documents_processed = 2
    /\ result.chunks_ingested = 3

\* C27: ProcessNewFilesCommand.execute returns the add_files action only
\* after confirm_action answered True; when the operator declines, goes
\* back (0), skips (4) or there is no new file the result is CONTINUE, and
\* the store is changed only while an add_files action is processed.
C27_AddOnlyAfterConfirm ==
    [][ (orch = "menu") =>
          /\ (pnf_result' # pnf_result
                /\ pnf_result'.action = "custom_action") =>
                (pc = "confirm" /\ pnf_result'.confirmed)
          /\ (pnf_result' # pnf_result /\ pnf_result'.action = "continue") =>
                (pc' = "loop" /\ store' = store)
          /\ (pc = "confirm" /\ pc' = "loop") =>
                pnf_result'.action = IF pnf_result'.confirmed
                                     THEN "custom_action" ELSE "continue"
          /\ (pc \in {"choice", "pnf_menu", "pnf_select"} /\ pc' = "loop") =>
                pnf_result'.action \in {"", "continue"}
          /\ pc' = "batch" => pnf_result'.action = "custom_action"
          /\ store' # store =>
                (pc = "batch" /\ pnf_result.action = "custom_action"
                   /\ pnf_result.confirmed)
      ]_vars

C27_Witness ==
    /\ orch = "menu" /\ pc = "loop"
    /\ pnf_result = [action |-> "continue", confirmed |-> FALSE]
    /\ dispatched = "1" /\ context.new # {}
    /\ nBatches = 0 /\ store = {}

\* C28: a menu run whose main-menu entries (valid ids, rejected ids such
\* as 99, empty entries) trigger no add_files batch never calls
\* add_documents and leaves the store alone, and when it ends with Exit
\* ingest_documents returns success = True with documents_processed = 0
\* and chunks_ingested = 0.
C28_NoAddRunSucceedsEmpty ==
    [][ (orch = "menu" /\ nBatches' = 0) =>
          /\ store' = store
          /\ lastAdd' = lastAdd
          /\ (pc' = "done" /\ dispatched' \in ChoiceMap(menu_items)
                /\ CommandOf(menu_items, dispatched') = "exit") =>
                /\ result'.success
                /\ result'.documents_processed = 0
                /\ result'.chunks_ingested = 0
      ]_vars

C28_Witness ==
    /\ orch = "menu" /\ pc = "done" /\ nBatches = 0
    /\ rejected /\ entry = "0" /\ dispatched = "0"
    /\ ~crashed /\ ~interrupted
    /\ result.success /\ result.documents_processed = 0
    /\ lastAdd = <<0, 0>>

\* C29: at the "Your selection:" prompt an entry other than "all" with a
\* token that is no number, is empty or names no position 1..n of the
\* sorted new files selects nothing (execute returns CONTINUE, also when
\* other tokens of the entry are valid); "all" selects the whole NEW set
\* and in-range indices select exactly the files at those positions.
C29_SelectionAllOrNothing ==
    file_choice.pc = "parsed" =>
      LET new == file_choice.new_files
          n == Cardinality(new)
          Pos(f) == Cardinality({g \in new : \E i, j \in 1..Len(FileOrder) :
                       FileOrder[i] = g /\ FileOrder[j] = f /\ i <= j})
          InRange(t) == t \in {"1", "2", "3", "4"} /\ IntOf[t] <= n
          toks == Range(file_choice.tokens)
      IN /\ file_choice.tokens = <<"all">> =>
              (file_choice.result.ok /\ file_choice.result.files = new)
         /\ (file_choice.tokens # <<"all">> /\ \E t \in toks : ~InRange(t)) =>
              (~file_choice.result.ok /\ file_choice.result.files = {})
         /\ (file_choice.tokens # <<"all">> /\ \A t \in toks : InRange(t)) =>
              /\ file_choice.result.ok
              /\ file_choice.result.files = {f \in new : \E t \in toks : IntOf[t] = Pos(f)}

C29_Witness ==
    /\ file_choice.pc = "parsed"
    /\ file_choice.tokens = <<"1", "4">>
    /\ file_choice.new_files = {"a.txt", "b.txt"}
    /\ ~file_choice.result.ok /\ file_choice.result.files = {}

\* C30: generate_rag_response builds the context from exactly the
\* retrieved documents whose score is at least MIN_RELEVANCE_SCORE, in
\* retrieval order, the context is empty when none qualifies, and
\* generate_llm_response is called exactly once.
C30_ContextFromRelevantDocs ==
    /\ rag.pc \in {"idle", "retrieved"} => rag.llm_calls = 0
    /\ rag.pc = "done" =>
         LET kept == {i \in 1..Len(rag.results) :
                         /\ rag.results[i].scored
                         /\ rag.results[i].score >= MinRelevanceScore}
         IN /\ rag.llm_calls = 1
            /\ Len(rag.context) = Cardinality(kept)
            /\ \A i \in kept :
                 rag.context[Cardinality({j \in kept : j <= i})]
                   = rag.results[i].doc

C30_Witness ==
    /\ rag.pc = "done" /\ rag.llm_calls = 1
    /\ Len(rag.results) = 2
    /\ rag.results[1] = [doc |-> "d2", score |-> MinRelevanceScore - 1,
                         scored |-> TRUE]
    /\ rag.results[2] = [doc |-> "d1", score |-> MinRelevanceScore,
                         scored |-> TRUE]
    /\ rag.context = <<"d1">>

C39_ClearLeavesUsableStore ==
    /\ vector_store.op = "clear_database" =>
         /\ vector_store.outcome = "returned"
         /\ vector_store.collection
         /\ vector_store.count = 0
    /\ (vector_store.cleared /\ vector_store.op = "get_system_stats") =>
         vector_store.outcome = "returned"

\* C32 as stated: after one add_files batch over two different new files
\* that each yield at least one chunk and are both reported stored, the
\* sources of the store contain both filenames and the store, empty
\* before, holds as many chunks as chunks_ingested reports.
C32_NoCollisionAcrossFiles ==
    [][ (/\ orch = "menu" /\ pc = "batch"
         /\ nBatches = 1 /\ batchSize = 2
         /\ Cardinality(Range(documents)) = 2
         /\ batchLog.handled = 1 /\ batchLog.last = "stored"
         /\ batchLog'.handled = 2 /\ batchLog'.last = "stored") =>
          /\ Range(documents) \subseteq GetAllDocumentSources(store')
          /\ Cardinality(store') = total_chunks'
      ]_vars

\* C33 as stated: documents_processed counts exactly the documents for
\* which add_documents was called and returned True, chunks_ingested the
\* chunks passed in those calls; a document for which the pipeline wrote
\* 0 chunks is not counted.
C33_CountsOnlyStoredDocuments ==
    [][ (orch = "menu" /\ pc = "batch") =>
          LET stored == batchLog'.last = "stored"
          IN /\ processed_documents' =
                  processed_documents + (IF stored THEN 1 ELSE 0)
             /\ total_chunks' =
                  total_chunks + (IF stored THEN lastAdd'[1] ELSE 0)
      ]_vars

\* C34: whenever the menu orchestrator's ingest_documents has returned,
\* after Exit, after an interrupt or after an exception that ended the
\* loop, _process_result of the shared MenuOrchestrator is the original
\* method again; it is the ingestion handler exactly while run is active.
C34_HandlerRestored ==
    orch = "menu" =>
      /\ pc \in {"start", "done"} => process_result = "original"
      /\ pc \notin {"start", "done"} => process_result = "ingestion"

C34_Witness ==
    /\ orch = "menu" /\ pc = "done"
    /\ interrupted /\ nBatches = 1 /\ processed_documents > 0
    /\ process_result = "original"

\* C35: every add_files action returned by ProcessNewFilesCommand.execute
\* carries a non-empty set of filenames that is a subset of the NEW set of
\* the context it was executed with, so it names no file of BOTH or
\* ORPHANED and no file outside the partition.
C35_AddFilesWithinNew ==
    [][ (/\ orch = "menu"
         /\ pnf_result' # pnf_result
         /\ pnf_result'.action = "custom_action") =>
          /\ selected # {}
          /\ selected \subseteq context.new
          /\ selected \cap (context.both \cup context.orphaned) = {}
          /\ selected \subseteq Range(documents)
          /\ pc' = "batch" /\ Range(selected_docs') = selected
      ]_vars

C35_Witness ==
    /\ orch = "menu" /\ pc = "batch" /\ batchLog.handled = 0
    /\ pnf_result.action = "custom_action"
    /\ context.both # {}
    /\ Range(selected_docs) # {}
    /\ Range(selected_docs) \subseteq context.new
    /\ Range(selected_docs) # context.new

\* C36 as stated: for one add_files action each selected filename is run
\* through the pipeline at most once, also when the data directory holds
\* files of the same name in different sub-directories: the batch has at
\* most as many documents as filenames were selected, no filename twice,
\* and documents_processed grows by at most one per document.
C36_EachFilenameOnce ==
    [][ (orch = "menu") =>
          /\ (pc = "confirm" /\ pc' = "batch") =>
                /\ Len(selected_docs') <= Cardinality(selected)
                /\ Cardinality(Range(selected_docs')) = Len(selected_docs')
          /\ pc = "batch" =>
                processed_documents' <= processed_documents + 1
      ]_vars

\* C37 as stated: in every tree built with MenuBuilder the children of a
\* group are exactly the components bound in its choice map, one choice
\* id per child; a submenu started inside a menu is bound to a choice id
\* of its parent.
C37_ChildrenAreChoices ==
    \A g \in 1..Len(menus) :
      LET submenus == {h \in 1..Len(menus) : menus[h].parent = g}
      IN Len(menus[g].items) + Cardinality(submenus)
           = Cardinality(ChoiceMap(menus[g].items))

\* C38 as stated: in the default orchestrator the files chosen under a
\* Replace option of the files-in-both-places menu are the only ones
\* deleted from the store, before any add_documents call of the run, and
\* they are exactly the files then processed; after the run every
\* replaced file (every file of BOTH, the others being untouched) still
\* has chunks in the store.
C38_ReplaceKeepsFiles ==
    [][ (orch = "default" /\ dispatched = "2") =>
          LET deleted == GetAllDocumentSources(store)
                           \ GetAllDocumentSources(store')
          IN /\ (pc = "d_sub" /\ deleted # {}) =>
                   /\ deleted \subseteq context.both
                   /\ pc' = "d_batch"
                   /\ Range(selected_docs') = deleted
                   /\ lastAdd = <<0, 0>>
             /\ pc # "d_sub" => deleted = {}
             /\ pc' = "done" =>
                   context.both \subseteq GetAllDocumentSources(store')
      ]_vars

====
